---- MODULE Spec2Model ----
(***************************************************************************)
(* Room-based signalling relay of src/server.py (websocket_endpoint).      *)
(*                                                                         *)
(* One asyncio task runs the handler per connection.  Tasks are            *)
(* cooperative: a task only gives up control at an `await` (accept,        *)
(* send_text, receive_text), so every action below is one task's code from *)
(* the return of one await up to the suspension in the next one.           *)
(*                                                                         *)
(* `rooms[room_id]` is a Python dict that the handlers iterate while they  *)
(* are suspended in a send.  The dict is modelled as CPython keeps it: an  *)
(* insertion-ordered entry array in which a removed key leaves a dummy     *)
(* entry, and an iterator that remembers its position, the size of the     *)
(* dict when it was created and the number of entries it still expects.    *)
(* The key table of a dict is rebuilt only by the sixth insertion into the *)
(* same dict object; every session inserts once, so with at most five      *)
(* sessions the entry array is never compacted.                            *)
(***************************************************************************)
EXTENDS Integers, Sequences, FiniteSets, TLC

\* Number of connections (handler tasks) of a run.
NumSessions == 3

Sessions == 1..NumSessions
RoomIds == {"r1", "r2"}
\* Values of uuid.uuid4().hex[:8], in the order in which a run first draws
\* them.
IdOrder == <<"c1", "c2", "c3">>
ClientIds == {IdOrder[k] : k \in 1..Len(IdOrder)}
\* The `username` query parameter; "" stands for a missing or empty one.
\* Only the first connection of a run may carry a name.
Usernames(s) == IF s = 1 THEN {"", "Alice"} ELSE {""}

None == "None"
NoWs == 0
Tomb == [cid |-> None, ws |-> NoWs]
NoIter == [pos |-> 0, used |-> 0, len |-> 0, stale |-> FALSE]
NoMsg == [kind |-> "none"]

VARIABLES
    pc,               \* where each handler task is suspended
    room,             \* room_id path parameter of each connection
    username,         \* username query parameter of each connection
    client_id,        \* client_id local of each handler
    rooms,            \* rooms: room_id -> dict client_id -> WebSocket
    room_users,       \* room_users: room_id -> dict client_id -> username
    it,               \* the dict iterator of the handler's running for-loop
    cur,              \* the entry the handler is sending to
    disconnected,     \* disconnected_clients local
    msg,              \* broadcast_message and target_client locals
    existing_clients, \* existing_clients local
    bsnap,            \* history: the entries when the running loop began
    bsent,            \* history: the entries the running broadcast has sent to
    drawn,            \* history: how many different ids uuid4 has returned
    collided          \* history: an admission drew the id of a current member

vars == <<pc, room, username, client_id, rooms, room_users, it, cur,
          disconnected, msg, existing_clients, bsnap, bsent, drawn, collided>>

----------------------------------------------------------------------------
(* Python dict and defaultdict *)

Min(S) == CHOOSE x \in S : \A y \in S : x <= y

\* len(d): the number of live entries.
Size(d) == Cardinality({k \in 1..Len(d) : d[k] # Tomb})

Keys(d) == {d[k].cid : k \in {j \in 1..Len(d) : d[j] # Tomb}}

IndexOf(d, c) == CHOOSE k \in 1..Len(d) : d[k] # Tomb /\ d[k].cid = c

\* d[c] = w: an existing key keeps its position, a new one is appended.
DictSet(d, c, w) ==
    IF c \in Keys(d)
    THEN [d EXCEPT ![IndexOf(d, c)] = [cid |-> c, ws |-> w]]
    ELSE Append(d, [cid |-> c, ws |-> w])

\* d.pop(c, None): the entry becomes a dummy, the array keeps its length.
DictPop(d, c) ==
    IF c \in Keys(d) THEN [d EXCEPT ![IndexOf(d, c)] = Tomb] ELSE d

\* defaultdict.__getitem__: a missing key is inserted with an empty dict.
Touch(f, r, empty) == IF r \in DOMAIN f THEN f ELSE (r :> empty) @@ f

\* dict.pop(r, None) on the outer dict.
Drop(f, r) == [k \in DOMAIN f \ {r} |-> f[k]]

\* room_users[room_id] is a plain mapping (never iterated).
MapPop(m, c) == [k \in DOMAIN m \ {c} |-> m[k]]
EmptyMap == [k \in {} |-> ""]

\* f"User {client_id}" and a supplied name, as display names.
Placeholder(c) == [kind |-> "placeholder", v |-> c]
Given(u) == [kind |-> "given", v |-> u]

\* room_users[room_id].get(cid, f"User {cid}")
NameOf(ru, r, c) ==
    IF r \in DOMAIN ru /\ c \in DOMAIN ru[r] THEN Given(ru[r][c]) ELSE Placeholder(c)

----------------------------------------------------------------------------
(* dict iteration (dictiter_iternextitem) *)

NewIter(d) == [pos |-> 1, used |-> Size(d), len |-> Size(d), stale |-> FALSE]

\* One call of next() on iterator i over dict d.
IterNext(d, i) ==
    IF i.stale \/ i.used # Size(d)
    THEN [res |-> "error", it |-> i, idx |-> 0]
    ELSE LET live == {k \in i.pos..Len(d) : d[k] # Tomb}
         IN  IF live = {} THEN [res |-> "stop", it |-> i, idx |-> 0]
             ELSE IF i.len = 0 THEN [res |-> "error", it |-> i, idx |-> 0]
             ELSE [res |-> "yield",
                   it |-> [i EXCEPT !.pos = Min(live) + 1, !.len = @ - 1],
                   idx |-> Min(live)]

Falsy(t) == t \in {None, ""}

\* The loop condition without its test of target_client.
WantedAnyTarget(c, self, target) == c # self

\* The loop condition of the announce and broadcast loops.
Wanted(c, self, target) == c # self /\ (Falsy(target) \/ c = target)

\* Runs the for-loop up to the next entry whose body awaits a send.
RECURSIVE Scan(_, _, _, _)
Scan(d, i, self, target) ==
    LET n == IterNext(d, i)
    IN  IF n.res # "yield" THEN n
        ELSE IF Wanted(d[n.idx].cid, self, target) THEN n
        ELSE Scan(d, n.it, self, target)

\* The dict object the running loop of s iterates.
LoopDict(s) == IF room[s] \in DOMAIN rooms THEN rooms[room[s]] ELSE << >>

\* The live entries of a dict, as a set.
Entries(d) == {d[k] : k \in {j \in 1..Len(d) : d[j] # Tomb}}

\* for cid in disconnected_clients: d.pop(cid, None)
PopAll(d, S) == [k \in 1..Len(d) |-> IF d[k].cid \in S THEN Tomb ELSE d[k]]

\* How a handler ends: "closed" after WebSocketDisconnect and "failed" after
\* another exception of the relay loop (both run the finally block),
\* "crashed" when an exception leaves the handler outside the try.
Ended == {"closed", "failed", "crashed"}

\* The handler of connection w has not returned.
Running(w) == pc[w] \notin Ended \cup {"init"}

\* The handler is suspended in `await ws.send_text(broadcast_message)`.
SendPc == "bcast"

\* A handler that would also read its next message while a send is pending.
AtReceiveOrSend(p) == p \in {"receiving", SendPc}

\* The handler at position p is suspended in `await websocket.receive_text()`.
AtReceive(p) == p = "receiving"

----------------------------------------------------------------------------
Init ==
    /\ pc = [s \in Sessions |-> "init"]
    /\ room = [s \in Sessions |-> "r1"]
    /\ username = [s \in Sessions |-> ""]
    /\ client_id = [s \in Sessions |-> None]
    /\ rooms = [r \in {} |-> << >>]
    /\ room_users = [r \in {} |-> EmptyMap]
    /\ it = [s \in Sessions |-> NoIter]
    /\ cur = [s \in Sessions |-> Tomb]
    /\ disconnected = [s \in Sessions |-> {}]
    /\ msg = [s \in Sessions |-> NoMsg]
    /\ existing_clients = [s \in Sessions |-> << >>]
    /\ bsnap = [s \in Sessions |-> {}]
    /\ bsent = [s \in Sessions |-> {}]
    /\ drawn = 0
    /\ collided = FALSE

\* The handler of s returns: its locals are gone.
Return(s, how) ==
    /\ pc' = [pc EXCEPT ![s] = how]
    /\ room' = [room EXCEPT ![s] = "r1"]
    /\ username' = [username EXCEPT ![s] = ""]
    /\ client_id' = [client_id EXCEPT ![s] = None]
    /\ cur' = [cur EXCEPT ![s] = Tomb]
    /\ disconnected' = [disconnected EXCEPT ![s] = {}]
    /\ msg' = [msg EXCEPT ![s] = NoMsg]
    /\ existing_clients' = [existing_clients EXCEPT ![s] = << >>]
    /\ bsnap' = [bsnap EXCEPT ![s] = {}]
    /\ bsent' = [bsent EXCEPT ![s] = {}]

\* A client opens /ws/{room_id}?username=... and accept() raises: the
\* handler ends before it touched the registry.
AcceptFail(s) ==
    /\ pc[s] = "init"
    /\ \A t \in Sessions : t < s => pc[t] # "init"
    /\ Return(s, "crashed")
    /\ UNCHANGED <<rooms, room_users, it, drawn, collided>>

\* username or f"User {client_id}"
Display(u, c) == IF u # "" THEN Given(u) ELSE Placeholder(c)

NewClientMsg(s) ==
    [type |-> "new_client",
     client |-> [id |-> client_id[s],
                 username |-> Display(username[s], client_id[s])]]

ExistingMsg(s) ==
    [type |-> "existing", clients |-> existing_clients[s],
     your_id |-> client_id[s],
     your_username |-> Display(username[s], client_id[s])]

\* The announce loop of s from its iterator i over d, after the registry
\* became rs/ru: notify the next peer, or send `existing`, or raise.
AnnounceFrom(s, r, u, c, rs, ru, d, i, ex, snap) ==
    LET n == Scan(d, i, c, None)
    IN  /\ rooms' = rs
        /\ CASE n.res = "yield" ->
                  \* suspended in the send of `new_client` to d[n.idx]
                  /\ pc' = [pc EXCEPT ![s] = "notify"]
                  /\ room' = [room EXCEPT ![s] = r]
                  /\ username' = [username EXCEPT ![s] = u]
                  /\ client_id' = [client_id EXCEPT ![s] = c]
                  /\ it' = [it EXCEPT ![s] = n.it]
                  /\ cur' = [cur EXCEPT ![s] = d[n.idx]]
                  /\ room_users' = Touch(ru, r, EmptyMap)
                  /\ existing_clients' = [existing_clients EXCEPT ![s] =
                        Append(ex, [id |-> d[n.idx].cid,
                                    username |-> NameOf(ru, r, d[n.idx].cid)])]
                  /\ bsnap' = [bsnap EXCEPT ![s] = snap]
                  /\ UNCHANGED <<disconnected, msg, bsent>>
             [] n.res = "stop" ->
                  \* suspended in the send of `existing` to s itself
                  /\ pc' = [pc EXCEPT ![s] = "existing"]
                  /\ room' = [room EXCEPT ![s] = r]
                  /\ username' = [username EXCEPT ![s] = u]
                  /\ client_id' = [client_id EXCEPT ![s] = c]
                  /\ it' = [it EXCEPT ![s] = NoIter]
                  /\ cur' = [cur EXCEPT ![s] = Tomb]
                  /\ room_users' = ru
                  /\ existing_clients' = [existing_clients EXCEPT ![s] = ex]
                  /\ bsnap' = [bsnap EXCEPT ![s] = snap]
                  /\ UNCHANGED <<disconnected, msg, bsent>>
             [] n.res = "error" ->
                  \* RuntimeError leaves the handler: the loop is outside the
                  \* try, so the finally block does not run
                  /\ Return(s, "crashed")
                  /\ it' = [it EXCEPT ![s] = NoIter]
                  /\ room_users' = ru

\* A registry that is not partitioned by room: the connection is inserted
\* under every room key.
InsertEveryRoom(rs, r, c, w) ==
    [q \in RoomIds |-> DictSet(Touch(rs, q, << >>)[q], c, w)]

\* rooms[room_id][client_id] = websocket
Insert(rs, r, c, w) == [Touch(rs, r, << >>) EXCEPT ![r] = DictSet(@, c, w)]

\* if username: room_users[room_id][client_id] = username
SetName(ru, r, c, u) ==
    IF u # ""
    THEN [Touch(ru, r, EmptyMap) EXCEPT ![r] = (c :> u) @@ @]
    ELSE ru

\* uuid.uuid4().hex[:8] returns an id it returned before or a new one; the
\* new ones are named in the order of IdOrder.
Uuid4(n) == {IdOrder[k] : k \in 1..(IF n < Len(IdOrder) THEN n + 1 ELSE n)}

Drawn(n, c) == IF c = IdOrder[IF n < Len(IdOrder) THEN n + 1 ELSE n] /\ n < Len(IdOrder)
               THEN n + 1 ELSE n

\* A client opens /ws/{r}?username={u} and accept() returns: the client id
\* is drawn, the session is inserted and the announce loop starts.
\* Connections are numbered in the order in which they are accepted, and
\* the first one's room is called "r1".
Admit(s, r, u, c) ==
    /\ pc[s] = "init"
    /\ \A t \in Sessions : t < s => pc[t] # "init"
    /\ s = 1 => r = "r1"
    /\ c \in Uuid4(drawn)
    /\ drawn' = Drawn(drawn, c)
    /\ collided' = (collided \/ (r \in DOMAIN rooms /\ c \in Keys(rooms[r])))
    /\ LET rs == Insert(rooms, r, c, s)
           ru == SetName(room_users, r, c, u)
       IN  AnnounceFrom(s, r, u, c, rs, ru, rs[r], NewIter(rs[r]), << >>,
                        Entries(rs[r]))

\* The send of `new_client` returns or raises (caught and logged); the loop
\* goes on with the next entry.
NotifyDone(s) ==
    /\ pc[s] = "notify"
    /\ UNCHANGED <<drawn, collided>>
    /\ AnnounceFrom(s, room[s], username[s], client_id[s], rooms, room_users,
                    LoopDict(s), it[s], existing_clients[s], bsnap[s])

\* The send of `existing` returns or raises (caught and logged); the handler
\* enters the relay loop and waits in receive_text().
ExistingDone(s) ==
    /\ pc[s] = "existing"
    /\ pc' = [pc EXCEPT ![s] = "receiving"]
    /\ existing_clients' = [existing_clients EXCEPT ![s] = << >>]
    /\ bsnap' = [bsnap EXCEPT ![s] = {}]
    /\ UNCHANGED <<room, username, client_id, rooms, room_users, it, cur,
                   disconnected, msg, bsent, drawn, collided>>

----------------------------------------------------------------------------
(* relay loop *)

\* The finally block: the session's id leaves both maps and an empty room
\* is deleted.  A loop suspended over the deleted dict keeps that object.
Cleanup(s, rs, ru, how) ==
    LET r == room[s]
        c == client_id[s]
        rs1 == [Touch(rs, r, << >>) EXCEPT ![r] = DictPop(@, c)]
        ru1 == [Touch(ru, r, EmptyMap) EXCEPT ![r] = MapPop(@, c)]
        empty == Size(rs1[r]) = 0
    IN  /\ rooms' = IF empty THEN Drop(rs1, r) ELSE rs1
        /\ room_users' = IF empty THEN Drop(ru1, r) ELSE ru1
        /\ it' = [t \in Sessions |->
                    IF t = s THEN NoIter
                    ELSE IF empty /\ room[t] = r /\ pc[t] \in {"notify", SendPc}
                    THEN [it[t] EXCEPT !.stale = TRUE]
                    ELSE it[t]]
        /\ Return(s, how)

\* for cid in disconnected_clients: pop it from both maps
Prune(f, r, disc, empty, popped) ==
    IF disc = {} THEN f ELSE [Touch(f, r, empty) EXCEPT ![r] = popped]

\* The broadcast loop of s for message m from its iterator i over d, after
\* the registry became rs/ru and with disc the failed recipients so far.
BroadcastFrom(s, m, rs, ru, d, i, disc, snap, sent) ==
    LET n == Scan(d, i, client_id[s], m.target)
        r == room[s]
    IN  CASE n.res = "yield" ->
              \* suspended in the send of m.body to d[n.idx]
              /\ pc' = [pc EXCEPT ![s] = SendPc]
              /\ it' = [it EXCEPT ![s] = n.it]
              /\ cur' = [cur EXCEPT ![s] = d[n.idx]]
              /\ disconnected' = [disconnected EXCEPT ![s] = disc]
              /\ msg' = [msg EXCEPT ![s] = m]
              /\ rooms' = rs
              /\ room_users' = ru
              /\ bsnap' = [bsnap EXCEPT ![s] = snap]
              /\ bsent' = [bsent EXCEPT ![s] = sent \cup {d[n.idx]}]
              /\ UNCHANGED <<room, username, client_id, existing_clients>>
         [] n.res = "stop" ->
              \* the loop is over: the failed recipients are removed and the
              \* handler waits in receive_text() again
              /\ pc' = [pc EXCEPT ![s] = "receiving"]
              /\ it' = [it EXCEPT ![s] = NoIter]
              /\ cur' = [cur EXCEPT ![s] = Tomb]
              /\ disconnected' = [disconnected EXCEPT ![s] = {}]
              /\ msg' = [msg EXCEPT ![s] = NoMsg]
              /\ rooms' = Prune(rs, r, disc, << >>, PopAll(rs[r], disc))
              /\ room_users' = Prune(ru, r, disc, EmptyMap,
                                     [k \in DOMAIN ru[r] \ disc |-> ru[r][k]])
              /\ bsnap' = [bsnap EXCEPT ![s] = {}]
              /\ bsent' = [bsent EXCEPT ![s] = {}]
              /\ UNCHANGED <<room, username, client_id, existing_clients>>
         [] n.res = "error" ->
              \* RuntimeError, caught by `except Exception`, then finally
              Cleanup(s, rs, ru, "failed")

\* str.strip() of the chat texts the clients send.
Strip(t) == CASE t \in {"", " "} -> ""
              [] t = " hi " -> "hi"
              [] OTHER -> t

\* The parsed JSON objects the clients send.
ChatObjects == {[chat |-> "hi"], [chat |-> " hi "], [chat |-> " "]}
SignalObjects ==
    {[type |-> "offer", to |-> t] : t \in ClientIds \cup {""}}
    \cup {[type |-> "offer", from |-> "c1", from_username |-> Given("Mallory")]}

\* "from" and "from_username" as the handler of s computes them.
SenderFields(s, ru) ==
    [from |-> client_id[s], from_username |-> NameOf(ru, room[s], client_id[s])]

\* {"from": ..., "from_username": ..., "chat": chat_message}
ChatEnvelope(s, ru, text) == [chat |-> text] @@ SenderFields(s, ru)

\* {"from": ..., "from_username": ..., **msg_obj}: a later key wins.
SignalEnvelope(s, ru, o) == o @@ SenderFields(s, ru)

\* msg_obj.get("to")
TargetOf(o) == IF "to" \in DOMAIN o THEN o.to ELSE None

\* receive_text() returns text that json.loads rejects: logged and skipped.
RecvInvalid(s) ==
    /\ AtReceive(pc[s])
    /\ UNCHANGED vars

\* receive_text() returns JSON that is no object (a number, a list, a
\* string), or an object whose "chat" is no string: `"chat" in msg_obj`,
\* msg_obj.get or .strip() raises, which `except Exception` catches.
RecvNonObject(s) ==
    /\ AtReceive(pc[s])
    /\ UNCHANGED <<drawn, collided>>
    /\ Cleanup(s, rooms, room_users, "failed")

\* receive_text() returns an object with a "chat" key.
RecvChat(s, o) ==
    /\ AtReceive(pc[s])
    /\ UNCHANGED <<drawn, collided>>
    /\ IF Strip(o.chat) = ""
       THEN UNCHANGED <<pc, room, username, client_id, rooms, room_users, it,
                        cur, disconnected, msg, existing_clients, bsnap, bsent>>
       ELSE LET ru == Touch(room_users, room[s], EmptyMap)
                rs == Touch(rooms, room[s], << >>)
                m == [kind |-> "chat", target |-> None,
                      body |-> ChatEnvelope(s, ru, Strip(o.chat))]
                d == rs[room[s]]
            IN  BroadcastFrom(s, m, rs, ru, d, NewIter(d), {}, Entries(d), {})

\* receive_text() returns an object without a "chat" key: a signal.
RecvSignal(s, o) ==
    /\ AtReceive(pc[s])
    /\ UNCHANGED <<drawn, collided>>
    /\ LET ru == Touch(room_users, room[s], EmptyMap)
           rs == Touch(rooms, room[s], << >>)
           m == [kind |-> "signal", target |-> TargetOf(o),
                 body |-> SignalEnvelope(s, ru, o)]
           d == rs[room[s]]
       IN  BroadcastFrom(s, m, rs, ru, d, NewIter(d), {}, Entries(d), {})

\* The send to cur[s] returns (ok) or raises; the loop goes on.  A send to
\* a connection whose handler has returned raises.
SendDone(s, ok) ==
    /\ pc[s] = SendPc
    /\ ok => Running(cur[s].ws)
    /\ UNCHANGED <<drawn, collided>>
    /\ BroadcastFrom(s, msg[s], rooms, room_users, LoopDict(s), it[s],
                     IF ok THEN disconnected[s]
                     ELSE disconnected[s] \cup {cur[s].cid},
                     bsnap[s], bsent[s])

\* receive_text() raises WebSocketDisconnect.
Disconnect(s) ==
    /\ AtReceive(pc[s])
    /\ UNCHANGED <<drawn, collided>>
    /\ Cleanup(s, rooms, room_users, "closed")

Next ==
    \E s \in Sessions :
        \/ AcceptFail(s)
        \/ \E r \in RoomIds, u \in Usernames(s), c \in ClientIds : Admit(s, r, u, c)
        \/ NotifyDone(s)
        \/ ExistingDone(s)
        \/ RecvInvalid(s)
        \/ RecvNonObject(s)
        \/ \E o \in SignalObjects : RecvSignal(s, o)
        \/ \E o \in ChatObjects : RecvChat(s, o)
        \/ \E ok \in BOOLEAN : SendDone(s, ok)
        \/ Disconnect(s)

Spec == Init /\ [][Next]_vars

----------------------------------------------------------------------------
(* Properties *)

\* The entry of session s in its room's dict.
Own(s) == [cid |-> client_id[s], ws |-> s]

\* The member ids of room r; none when the registry has no entry for r.
Members(r) == IF r \in DOMAIN rooms THEN Keys(rooms[r]) ELSE {}

\* Step of s that is the admission of s.
Admitted(s) == pc[s] = "init" /\ pc'[s] \in {"notify", "existing"}

\* C1: the registry holds an entry for a room key only while the room has
\* members: no empty room entry is left behind by a broadcast or a disconnect.
C1_NoEmptyRoom ==
    ~collided => \A r \in DOMAIN rooms : Size(rooms[r]) > 0

\* C2: once the handler of a session has returned, for whatever cause, the
\* session's connection is not a member of any room.
C2_ReturnedNotMember ==
    \A s \in Sessions :
        (~collided /\ pc[s] \in Ended) =>
            \A r \in DOMAIN rooms : \A e \in Entries(rooms[r]) : e.ws # s

\* C3: an admission gives the session an id that no current member of the
\* room has: the membership grows by exactly one and every member keeps its
\* connection.
C3_FreshIdAtAdmission ==
    [][\A s \in Sessions :
          Admitted(s) =>
              LET r == room'[s]
                  before == IF r \in DOMAIN rooms THEN rooms[r] ELSE << >>
              IN  /\ client_id'[s] \notin Keys(before)
                  /\ Size(rooms'[r]) = Size(before) + 1
                  /\ Entries(before) \subseteq Entries(rooms'[r])]_vars

\* C4: a chat message of participant A, sent when the room has N participants,
\* is sent to exactly the N-1 participants other than A, never to A.
C4_ChatToAllOthers ==
    [][\A s \in Sessions :
          (/\ ~collided'
           /\ pc[s] = SendPc
           /\ pc'[s] # SendPc
           /\ msg[s].kind = "chat"
           /\ Own(s) \in bsnap[s])
          => bsent[s] = bsnap[s] \ {Own(s)}]_vars

C6_SignalProvenance ==
    \A s \in Sessions :
        (pc[s] = SendPc /\ msg[s].kind = "signal") =>
            /\ msg[s].body.from = client_id[s]
            /\ msg[s].body.from_username = Display(username[s], client_id[s])

\* C7: an inbound payload that is not a parseable message object never ends the
\* session: it stays in the relay loop, the membership is unchanged and
\* nothing is sent.
C7_MalformedIsSkipped ==
    [][\A s \in Sessions :
          (~collided /\ (RecvInvalid(s) \/ RecvNonObject(s))) =>
              /\ pc'[s] = "receiving"
              /\ rooms' = rooms
              /\ cur' = cur]_vars

\* C8: an admission into a room loses no earlier admission (every member
\* stays a member, the newcomer is one more), and when the newcomer sends its
\* `existing` message it lists every member admitted before it.
C8_ConcurrentAdmissions ==
    /\ [][\A s \in Sessions :
             Admitted(s) =>
                 LET r == room'[s]
                     before == IF r \in DOMAIN rooms THEN rooms[r] ELSE << >>
                 IN  /\ Own(s)' \in Entries(rooms'[r])
                     /\ Entries(before) \subseteq Entries(rooms'[r])]_vars
    /\ [](\A s \in Sessions :
             (pc[s] = "existing" /\ room[s] \in DOMAIN rooms
              /\ Own(s) \in Entries(rooms[room[s]])) =>
                 LET d == rooms[room[s]]
                     listed == {existing_clients[s][k].id :
                                   k \in 1..Len(existing_clients[s])}
                 IN  \A k \in 1..(IndexOf(d, client_id[s]) - 1) :
                        d[k] # Tomb => d[k].cid \in listed)

\* C9: a session takes its next inbound message only when every send of the
\* previous one has returned, so no recipient is sent a later message of a
\* sender before an earlier one: a handler waiting in receive_text() has no
\* message, recipient or loop left over, and a message is taken up only by a
\* handler that holds none.
C9_SendsBeforeNextReceive ==
    /\ [](\A s \in Sessions :
             pc[s] = "receiving" =>
                 /\ cur[s] = Tomb
                 /\ msg[s] = NoMsg
                 /\ it[s] = NoIter)
    /\ [][\A s \in Sessions :
             (msg'[s] # msg[s] /\ msg'[s] # NoMsg) =>
                 (msg[s] = NoMsg /\ bsent[s] = {})]_vars

\* A broadcast is suspended in its second send: the sender's next inbound
\* message waits behind the sends to two recipients.
C9_Witness ==
    \E s \in Sessions :
        /\ pc[s] = SendPc
        /\ Cardinality(bsent[s]) = 2

\* C10: a forwarded chat message carries the session's client id as `from`
\* and, as `from_username`, the display name under which the session was
\* announced at join.
C10_ChatProvenance ==
    \A s \in Sessions :
        (~collided /\ pc[s] = SendPc /\ msg[s].kind = "chat") =>
            /\ msg[s].body.from = client_id[s]
            /\ msg[s].body.from_username = Display(username[s], client_id[s])

\* The ids the step removes from room r: the id of every session of r whose
\* finally block runs, and the failed recipients a finished broadcast of r
\* prunes (lastFailed: the last send of that broadcast failed too).
RemovedIds(r, lastFailed) ==
    {client_id[s] : s \in {t \in Sessions :
                              /\ room[t] = r
                              /\ pc[t] \notin Ended \cup {"init"}
                              /\ pc'[t] \in {"closed", "failed"}}}
    \cup UNION {disconnected[s]
                   \cup (IF lastFailed THEN {cur[s].cid} ELSE {}) :
                s \in {t \in Sessions :
                          /\ room[t] = r
                          /\ pc[t] = SendPc
                          /\ pc'[t] = "receiving"}}

\* The sessions the step admits to room r.
AdmittedTo(r) == {s \in Sessions : Admitted(s) /\ room'[s] = r}

\* C11: every step changes the size of a room's membership by the number of
\* admits to it minus the number of removes from it that match a member; a
\* remove of an id that is no member changes no membership, and no member
\* that is not removed leaves.
C11_AdmitRemoveCount ==
    [][\A r \in RoomIds :
          \E lastFailed \in BOOLEAN :
              LET removed == RemovedIds(r, lastFailed) \cap Members(r)
              IN  /\ Cardinality(Members(r)') =
                         Cardinality(Members(r)) + Cardinality(AdmittedTo(r))
                             - Cardinality(removed)
                  /\ Members(r) \ removed \subseteq Members(r)']_vars

\* The ids the `existing` message of s lists.
Listed(s) == {existing_clients[s][k].id : k \in 1..Len(existing_clients[s])}

\* C12: the announce phase of an admitted session B runs up to the send of
\* `existing`; that message lists every member other than B at B's
\* admission, each with the name it joined under and each sent a `new_client`
\* notice naming B, never lists B and reports B's id as `your_id`.
C12_AnnounceComplete ==
    /\ [][\A s \in Sessions :
             pc[s] = "notify" => pc'[s] \in {"notify", "existing"}]_vars
    /\ [](\A s \in Sessions :
             pc[s] = "existing" =>
                 /\ {e.cid : e \in bsnap[s]} \ {client_id[s]} \subseteq Listed(s)
                 /\ ExistingMsg(s).your_id = client_id[s]
                 /\ client_id[s] \notin Listed(s))
    /\ [][\A s \in Sessions :
             (pc'[s] = "notify" /\ pc[s] \in {"init", "notify"}) =>
                 LET p == cur'[s]
                     last == existing_clients'[s][Len(existing_clients'[s])]
                 IN  /\ p.cid # client_id'[s]
                     /\ last.id = p.cid
                     /\ NewClientMsg(s)'.client.id = client_id'[s]
                     /\ (~collided' /\ Running(p.ws) /\ client_id[p.ws] = p.cid) =>
                            last.username = Display(username[p.ws], p.cid)]_vars

\* C13: a sender that is suspended in a send of its broadcast goes on to the
\* next send or back to receive_text(), whatever the other sessions did to
\* the membership meanwhile: its session never ends there.
C13_BroadcastSurvivesChange ==
    [][\A s \in Sessions :
          (~collided' /\ pc[s] = SendPc) =>
              pc'[s] \in {SendPc, "receiving"}]_vars

\* The ids with a display name in room r.
Named(r) == IF r \in DOMAIN room_users THEN DOMAIN room_users[r] ELSE {}

\* C15: a failed send to X does not end the broadcast: the loop has moved on
\* from X to the next recipient, the sender's session does not end in that
\* broadcast, and when the sender is back in receive_text() X has neither a
\* connection nor a name in the room.
C15_FailedSendPruned ==
    /\ [](\A s \in Sessions :
             (~collided /\ pc[s] = SendPc) =>
                 /\ cur[s].cid \notin disconnected[s]
                 /\ disconnected[s] \subseteq {e.cid : e \in bsent[s]})
    /\ [][\A s \in Sessions :
             (pc[s] = SendPc /\ pc'[s] = "receiving") =>
                 \A x \in disconnected[s] :
                     x \notin Members(room[s])' /\ x \notin Named(room[s])']_vars
    /\ [][\A s \in Sessions :
             (~collided' /\ pc[s] = SendPc /\ disconnected[s] # {}) =>
                 pc'[s] \in {SendPc, "receiving"}]_vars

\* Step of s in which a send of its broadcast starts.
SendStarts(s) == pc'[s] = SendPc /\ it'[s].pos # it[s].pos

\* C16: whenever a send of a chat or signal starts, the session it comes from
\* is a member of the room.
C16_OnlyMembersRelay ==
    [][\A s \in Sessions :
          (~collided' /\ SendStarts(s)) =>
              Own(s)' \in Entries(LoopDict(s)')]_vars

\* Step of s in which the send of a `new_client` notice starts.
NoticeStarts(s) == pc'[s] = "notify" /\ it'[s].pos # it[s].pos

\* C17: when a send of a chat, a signal or a `new_client` notice to a
\* connection starts, that connection's handler is past its announce loop:
\* the send of its own `existing` message has started before.
C17_ExistingFirst ==
    [][\A s \in Sessions :
          (~collided' /\ (SendStarts(s) \/ NoticeStarts(s))) =>
              pc'[cur'[s].ws] # "notify"]_vars

\* The room of the session that takes the step.
ActingRoom(s) == IF pc[s] = "init" THEN room'[s] ELSE room[s]

\* C18: a send of a chat, a signal or a `new_client` notice of a session of
\* room R goes to an entry of R's dict, whose connection is handled for R and
\* is an entry of no other room; and the membership of a room only changes
\* in a step of a session of that room.
C18_RoomIsolation ==
    /\ [][\A s \in Sessions :
             (SendStarts(s) \/ NoticeStarts(s)) =>
                 LET w == cur'[s].ws
                 IN  /\ cur'[s] \in Entries(LoopDict(s)')
                     /\ pc'[w] \notin Ended => room'[w] = room'[s]
                     /\ \A r \in DOMAIN rooms' \ {room'[s]} :
                            \A e \in Entries(rooms'[r]) : e.ws # w]_vars
    /\ [][\A r \in RoomIds :
             Members(r)' # Members(r) =>
                 \E s \in Sessions : pc'[s] # pc[s] /\ ActingRoom(s) = r]_vars

\* A signal addressed to an id that is also the id of a member of another
\* room is in flight to the member of the sender's own room.
C18_Witness ==
    \E s \in Sessions :
        /\ pc[s] = SendPc
        /\ msg[s].kind = "signal"
        /\ cur[s].cid = msg[s].target
        /\ \E r \in DOMAIN rooms \ {room[s]} : msg[s].target \in Keys(rooms[r])

----------------------------------------------------------------------------
(* Liveness *)

\* The connections whose client has stopped reading: a send_text to one of
\* them may stay suspended for ever, since the code sets no timeout on it.
Stalled == {2}

\* The event loop resumes a handler whose awaited send has completed, and a
\* send to a client that reads does complete (it returns or raises).  What a
\* client sends, and when it disconnects, is up to the client.
Fairness ==
    \A s \in Sessions :
        /\ WF_vars(NotifyDone(s) /\ cur[s].ws \notin Stalled)
        /\ WF_vars(ExistingDone(s) /\ s \notin Stalled)
        /\ WF_vars((\E ok \in BOOLEAN : SendDone(s, ok)) /\ cur[s].ws \notin Stalled)

LiveSpec == Init /\ [][Next]_vars /\ Fairness

\* C14: a broadcast always comes to its end, also when the send to one
\* recipient never completes: a sender suspended in a send is eventually
\* back in receive_text() (or its session has ended).
C14_BroadcastNotStalled ==
    \A s \in Sessions :
        (pc[s] = SendPc) ~> (pc[s] \in {"receiving"} \cup Ended)

====
